---- MODULE Spec2Model ----
(***************************************************************************)
(* Model of the catalog page of src/src/App.jsx: the App component's       *)
(* state (items, loading, query, category, error), the seed call issued    *)
(* on mount, the 300 ms debounce timer of the [query, category] effect,    *)
(* the product fetches in flight, and the derived category chips.          *)
(*                                                                         *)
(* Time is a discrete clock in milliseconds.  A timer that is due runs     *)
(* before the clock advances and before any input event of that instant.   *)
(* An item is represented by the value of its category field.              *)
(***************************************************************************)
EXTENDS Integers, Sequences, FiniteSets, TLC

VARIABLES
    items,      \* useState([])     App.jsx:70
    loading,    \* useState(true)   App.jsx:71
    query,      \* useState('')     App.jsx:72
    category,   \* useState('')     App.jsx:73
    error,      \* useState('')     App.jsx:74
    seed,       \* the POST /api/seed call: "pending", "ok" or "failed"
    timers,     \* the setTimeout timers that are pending
    effectTimer,\* the handle t held by the cleanup of the last effect run
    fetches,    \* the product fetches issued so far, in order of issuance
    now,        \* the clock, in ms since mount
    log,        \* history: mount, change, fetch and settle events in order
    writes,     \* the state setters the last handler called, in call order
    derIn,      \* category derivation on its own: the item list given
    derOut,     \* the sequence derived from derIn
    derAgain,   \* the sequence derived from derOut
    derPc       \* "in", "once", "twice"

vars == <<items, loading, query, category, error, seed, timers, effectTimer,
          fetches, now, log, writes, derIn, derOut, derAgain, derPc>>

appVars == <<items, loading, query, category, error, seed, timers,
             effectTimer, fetches, now, log, writes>>

derVars == <<derIn, derOut, derAgain, derPc>>

----------------------------------------------------------------------------
(* Bounds *)

MaxChanges == 2

MaxTime == 600

TickMs == 150

MaxLen == 6

(* Program constants *)

DEBOUNCE_MS == 300

FAILED_MSG == "Failed to load products"

(* The value of a missing property or argument. *)
Undefined == "<undefined>"

(* Search terms the user types, and the category values of the catalog. *)
Terms == {"", "shoe"}

Cats == {"A", "B", "C"}

(* The category field of an item: a category, the empty string, or absent. *)
CatValues == Cats \cup {"", Undefined}

(* JavaScript truthiness of a string-or-undefined value. *)
Truthy(v) == v # "" /\ v # Undefined

(* Parsed response bodies of GET /api/products: with or without items. *)
Bodies ==
    { [hasItems |-> FALSE, items |-> <<>>],
      [hasItems |-> TRUE,  items |-> <<"A">>],
      [hasItems |-> TRUE,  items |-> <<"B", "", "A", "B">>] }

----------------------------------------------------------------------------
(* Pure helpers *)

Range(s) == { s[i] : i \in 1..Len(s) }

Min(a, b) == IF a <= b THEN a ELSE b

(* Variant: values are not filtered by truthiness. *)
RECURSIVE SetInsertAllNoFilter(_, _)
SetInsertAllNoFilter(acc, s) ==
    IF s = <<>> THEN acc
    ELSE LET c == Head(s) IN
         IF c \in Range(acc) THEN SetInsertAllNoFilter(acc, Tail(s))
         ELSE SetInsertAllNoFilter(Append(acc, c), Tail(s))

(* new Set(items.map(i => i.category).filter(Boolean)), Array.from(set):   *)
(* insertion into a Set keeps the first occurrence of each value.          *)
RECURSIVE SetInsertAll(_, _)
SetInsertAll(acc, s) ==
    IF s = <<>> THEN acc
    ELSE LET c == Head(s) IN
         IF ~Truthy(c) THEN SetInsertAll(acc, Tail(s))
         ELSE IF c \in Range(acc) THEN SetInsertAll(acc, Tail(s))
         ELSE SetInsertAll(Append(acc, c), Tail(s))

Derive(list) == SetInsertAll(<<>>, list)

categories == Derive(items)

(* Variant: q is appended only when no category was. *)
BuildParamsElse(opts) ==
    IF Truthy(opts.category) THEN << <<"category", opts.category>> >>
    ELSE IF Truthy(opts.q) THEN << <<"q", opts.q>> >>
    ELSE <<>>

(* URLSearchParams built by fetchProducts: category first, then q. *)
BuildParams(opts) ==
    (IF Truthy(opts.category) THEN << <<"category", opts.category>> >> ELSE <<>>)
    \o (IF Truthy(opts.q) THEN << <<"q", opts.q>> >> ELSE <<>>)

(* data.items || [] *)
ItemsOrEmpty(data) == IF data.hasItems THEN data.items ELSE <<>>

(* State setter calls are applied in call order; the last call wins. *)
RECURSIVE FinalVal(_, _, _)
FinalVal(calls, name, old) ==
    IF calls = <<>> THEN old
    ELSE FinalVal(Tail(calls), name,
                  IF Head(calls).set = name THEN Head(calls).val ELSE old)

SetterNames(calls) == [i \in 1..Len(calls) |-> calls[i].set]

(* Variant: the previous error is not cleared on issuance. *)
IssueCallsKeepError == << [set |-> "loading", val |-> TRUE] >>

(* fetchProducts up to its first await: lines 83-84. *)
IssueCalls ==
    << [set |-> "loading", val |-> TRUE], [set |-> "error", val |-> ""] >>

(* Variant: loading is cleared before the items are stored. *)
SettleOkCallsLoadingFirst(data) ==
    << [set |-> "loading", val |-> FALSE],
       [set |-> "items", val |-> ItemsOrEmpty(data)] >>

(* fetchProducts after a successful parse: line 90, then finally line 95. *)
SettleOkCalls(data) ==
    << [set |-> "items", val |-> ItemsOrEmpty(data)],
       [set |-> "loading", val |-> FALSE] >>

(* Variant: no finally block, a failure leaves loading set. *)
SettleFailCallsNoFinally == << [set |-> "error", val |-> FAILED_MSG] >>

(* Variant: a failure also empties the item list. *)
SettleFailCallsClear ==
    << [set |-> "items", val |-> <<>>],
       [set |-> "error", val |-> FAILED_MSG],
       [set |-> "loading", val |-> FALSE] >>

(* fetchProducts after a rejection: line 93, then finally line 95. *)
SettleFailCalls ==
    << [set |-> "error", val |-> FAILED_MSG],
       [set |-> "loading", val |-> FALSE] >>

(* History events; only changes and fetch issuances are time-stamped. *)
Event(kind, fid, q, cat) ==
    [kind |-> kind, at |-> IF kind \in {"change", "fetch"} THEN now ELSE 0,
     fid |-> fid, q |-> q, category |-> cat]

(* Variant: clearTimeout has no effect. *)
ClearTimeoutNoop(pending, t) == pending

(* setTimeout(() => fetchProducts({ category, q: query }), 300) by the   *)
(* effect run of event armedBy, which also serves as the timer's handle.   *)
NewTimer(q, cat, armedBy) ==
    [due |-> now + DEBOUNCE_MS, q |-> q, category |-> cat, armedBy |-> armedBy]

(* clearTimeout(t): a no-op when t has fired already. *)
ClearTimeout(pending, t) == { x \in pending : x.armedBy # t }

TimerDue == \E t \in timers : t.due = now

(* Time until the earliest pending timer is due. *)
NextDue == CHOOSE d \in { t.due - now : t \in timers } :
               \A t \in timers : d <= t.due - now

NumChanges == Cardinality({ i \in 1..Len(log) : log[i].kind = "change" })

(* The user's input is bounded in number, and stops early enough for its   *)
(* debounce delay to end within the time modelled.                         *)
InputAllowed == NumChanges < MaxChanges /\ now + DEBOUNCE_MS <= MaxTime

Pending == { f \in 1..Len(fetches) : fetches[f].status = "pending" }

----------------------------------------------------------------------------
(* Initial state: after the first render and its two mount effects. *)

DerIdle ==
    /\ derIn = <<>>
    /\ derOut = <<>>
    /\ derAgain = <<>>
    /\ derPc = "idle"

AppInit ==
    /\ items = <<>>
    /\ loading = TRUE
    /\ query = ""
    /\ category = ""
    /\ error = ""
    /\ seed = "pending"
    /\ timers = { [due |-> DEBOUNCE_MS, q |-> "", category |-> "", armedBy |-> 1] }
    /\ effectTimer = 1
    /\ fetches = <<>>
    /\ now = 0
    /\ log = << [kind |-> "mount", at |-> 0, fid |-> 0, q |-> "", category |-> ""] >>
    /\ writes = <<>>

Init == AppInit /\ DerIdle

----------------------------------------------------------------------------
(* fetchProducts(opts) up to the await of fetch(): sets loading, clears    *)
(* error, builds the parameters and puts the request in flight.            *)
FetchProducts(opts, trigger, armedBy, history) ==
    /\ loading' = FinalVal(IssueCalls, "loading", loading)
    /\ error' = FinalVal(IssueCalls, "error", error)
    /\ items' = FinalVal(IssueCalls, "items", items)
    /\ writes' = SetterNames(IssueCalls)
    /\ fetches' = Append(fetches,
           [opts |-> opts, params |-> BuildParams(opts), trigger |-> trigger,
            armedBy |-> armedBy, status |-> "pending",
            body |-> [hasItems |-> FALSE, items |-> <<>>]])
    /\ log' = Append(history, Event("fetch", Len(fetches) + 1, opts.q, opts.category))

(* Variant: a pending timer is kept instead of being replaced. *)
DebounceEffectKeep(q, cat) ==
    IF timers # {}
    THEN UNCHANGED <<timers, effectTimer>>
    ELSE /\ timers' = { NewTimer(q, cat, Len(log) + 1) }
         /\ effectTimer' = Len(log) + 1

(* The [query, category] effect after a re-render: cleanup clears the old  *)
(* timer, then a new one is set that captures this render's values.        *)
DebounceEffect(q, cat) ==
    /\ timers' = ClearTimeout(timers, effectTimer)
                    \cup { NewTimer(q, cat, Len(log) + 1) }
    /\ effectTimer' = Len(log) + 1

(* SearchBar onChange -> setQuery(v); same value: no re-render. *)
SetQuery(v) ==
    /\ v # query
    /\ ~TimerDue
    /\ InputAllowed
    /\ query' = v
    /\ DebounceEffect(v, category)
    /\ log' = Append(log, Event("change", 0, v, category))
    /\ writes' = <<"query">>
    /\ UNCHANGED <<items, loading, category, error, seed, fetches, now>>

(* CategoryChips onClick -> setCategory(c): "All" or a derived category. *)
SetCategory(c) ==
    /\ c \in {""} \cup Range(categories)
    /\ c # category
    /\ ~TimerDue
    /\ InputAllowed
    /\ category' = c
    /\ DebounceEffect(query, c)
    /\ log' = Append(log, Event("change", 0, query, c))
    /\ writes' = <<"category">>
    /\ UNCHANGED <<items, loading, query, error, seed, fetches, now>>

(* The setTimeout callback: fetchProducts({ category, q: query }). *)
TimerFire ==
    \E t \in timers :
        /\ t.due = now
        /\ FetchProducts([category |-> t.category, q |-> t.q], "timer",
                         t.armedBy, log)
        /\ timers' = timers \ {t}
        /\ UNCHANGED <<query, category, seed, effectTimer, now>>

(* Variant: .then instead of .finally, no fetch after a failed seed call. *)
SeedSettleThen(ok) ==
    /\ seed = "pending"
    /\ seed' = IF ok THEN "ok" ELSE "failed"
    /\ IF ok
       THEN FetchProducts([category |-> Undefined, q |-> Undefined], "seed", 1,
                          Append(log, Event("seedSettle", 0, "", "")))
       ELSE /\ log' = Append(log, Event("seedSettle", 0, "", ""))
            /\ UNCHANGED <<items, loading, error, fetches, writes>>
    /\ UNCHANGED <<query, category, timers, effectTimer, now>>

(* The seed call settles; .finally(() => fetchProducts()) with opts = {}. *)
SeedSettle(ok) ==
    /\ seed = "pending"
    /\ seed' = IF ok THEN "ok" ELSE "failed"
    /\ FetchProducts([category |-> Undefined, q |-> Undefined], "seed", 1,
                     Append(log, Event("seedSettle", 0, "", "")))
    /\ UNCHANGED <<query, category, timers, effectTimer, now>>

(* Variant: only the most recently issued fetch may store its items. *)
SettleOkLatestOnly(f, data) ==
    /\ f \in Pending
    /\ LET calls == IF f = Len(fetches) THEN SettleOkCalls(data)
                    ELSE << [set |-> "loading", val |-> FALSE] >> IN
         /\ items' = FinalVal(calls, "items", items)
         /\ error' = FinalVal(calls, "error", error)
         /\ loading' = FinalVal(calls, "loading", loading)
         /\ writes' = SetterNames(calls)
    /\ fetches' = [fetches EXCEPT ![f].status = "ok", ![f].body = data]
    /\ log' = Append(log, Event("settle", f, "", ""))
    /\ UNCHANGED <<query, category, seed, timers, effectTimer, now>>

(* A product fetch resolves and its body parses. *)
SettleOk(f, data) ==
    /\ f \in Pending
    /\ LET calls == SettleOkCalls(data) IN
         /\ items' = FinalVal(calls, "items", items)
         /\ error' = FinalVal(calls, "error", error)
         /\ loading' = FinalVal(calls, "loading", loading)
         /\ writes' = SetterNames(calls)
    /\ fetches' = [fetches EXCEPT ![f].status = "ok", ![f].body = data]
    /\ log' = Append(log, Event("settle", f, "", ""))
    /\ UNCHANGED <<query, category, seed, timers, effectTimer, now>>

(* Variant: a failure schedules another attempt after the debounce delay. *)
SettleFailRetry(f) ==
    /\ f \in Pending
    /\ LET calls == SettleFailCalls IN
         /\ items' = FinalVal(calls, "items", items)
         /\ error' = FinalVal(calls, "error", error)
         /\ loading' = FinalVal(calls, "loading", loading)
         /\ writes' = SetterNames(calls)
    /\ fetches' = [fetches EXCEPT ![f].status = "failed"]
    /\ log' = Append(log, Event("settle", f, "", ""))
    /\ timers' = timers \cup { NewTimer(query, category, Len(log) + 1) }
    /\ UNCHANGED <<query, category, seed, effectTimer, now>>

(* A product fetch rejects, or its body does not parse. *)
SettleFail(f) ==
    /\ f \in Pending
    /\ LET calls == SettleFailCalls IN
         /\ items' = FinalVal(calls, "items", items)
         /\ error' = FinalVal(calls, "error", error)
         /\ loading' = FinalVal(calls, "loading", loading)
         /\ writes' = SetterNames(calls)
    /\ fetches' = [fetches EXCEPT ![f].status = "failed"]
    /\ log' = Append(log, Event("settle", f, "", ""))
    /\ UNCHANGED <<query, category, seed, timers, effectTimer, now>>

(* Time passes, but not beyond the instant a pending timer is due. *)
Tick ==
    /\ ~TimerDue
    /\ LET d == IF timers # {} THEN Min(TickMs, NextDue) ELSE TickMs IN
         /\ now + d <= MaxTime
         /\ now' = now + d
    /\ UNCHANGED <<items, loading, query, category, error, seed, timers, effectTimer,
                   fetches, log, writes>>

Next ==
    \/ (\E v \in Terms : SetQuery(v)) /\ UNCHANGED derVars
    \/ (\E c \in Cats \cup {""} : SetCategory(c)) /\ UNCHANGED derVars
    \/ TimerFire /\ UNCHANGED derVars
    \/ (\E ok \in BOOLEAN : SeedSettle(ok)) /\ UNCHANGED derVars
    \/ (\E f \in 1..Len(fetches), data \in Bodies : SettleOk(f, data)) /\ UNCHANGED derVars
    \/ (\E f \in 1..Len(fetches) : SettleFail(f)) /\ UNCHANGED derVars
    \/ Tick /\ UNCHANGED derVars

Spec == Init /\ [][Next]_vars

----------------------------------------------------------------------------
(* Category derivation on its own: every item list up to MaxLen. *)

DerInputs == UNION { [1..n -> CatValues] : n \in 0..MaxLen }

DerInit ==
    /\ AppInit
    /\ derIn \in DerInputs
    /\ derOut = <<>>
    /\ derAgain = <<>>
    /\ derPc = "in"

(* categories for items = derIn. *)
DeriveOnce ==
    /\ derPc = "in"
    /\ derOut' = Derive(derIn)
    /\ derPc' = "once"
    /\ UNCHANGED <<derIn, derAgain>>

(* categories for an item list whose category fields are derOut. *)
DeriveTwice ==
    /\ derPc = "once"
    /\ derAgain' = Derive(derOut)
    /\ derPc' = "twice"
    /\ UNCHANGED <<derIn, derOut>>

DerNext ==
    \/ DeriveOnce /\ UNCHANGED appVars
    \/ DeriveTwice /\ UNCHANGED appVars

SpecDerive == DerInit /\ [][DerNext]_vars

(* The same program when the seed call and every fetch settle, pending     *)
(* timers fire and time passes; the user's input is finite by MaxChanges.  *)
Live ==
    /\ WF_vars(TimerFire /\ UNCHANGED derVars)
    /\ WF_vars((\E ok \in BOOLEAN : SeedSettle(ok)) /\ UNCHANGED derVars)
    /\ WF_vars((\E f \in 1..Len(fetches) :
                   SettleFail(f) \/ \E data \in Bodies : SettleOk(f, data))
               /\ UNCHANGED derVars)
    /\ WF_vars(Tick /\ UNCHANGED derVars)

SpecLive == Init /\ [][Next]_vars /\ Live

TypeOK ==
    /\ loading \in BOOLEAN
    /\ error \in {"", FAILED_MSG}
    /\ query \in Terms
    /\ category \in Cats \cup {""}
    /\ seed \in {"pending", "ok", "failed"}
    /\ now \in 0..MaxTime

----------------------------------------------------------------------------
(* History operators *)

ChangeIdx == { i \in 1..Len(log) : log[i].kind = "change" }

FetchIdx == { i \in 1..Len(log) : log[i].kind = "fetch" }

(* Settle events of fetches that failed. *)
FailIdx ==
    { i \in 1..Len(log) : log[i].kind = "settle" /\ fetches[log[i].fid].status = "failed" }

(* Settle events of fetches that resolved. *)
OkIdx ==
    { i \in 1..Len(log) : log[i].kind = "settle" /\ fetches[log[i].fid].status = "ok" }

SetMax(S) == CHOOSE x \in S : \A y \in S : y <= x

SetMin(S) == CHOOSE x \in S : \A y \in S : x <= y

(* The change that follows event i, or 0. *)
NextChange(i) ==
    LET later == { k \in ChangeIdx : k > i } IN
    IF later = {} THEN 0 ELSE SetMin(later)

(* Changes i..j, each less than 300 ms after the previous one. *)
Chain(i, j) ==
    /\ i \in ChangeIdx /\ j \in ChangeIdx /\ i <= j
    /\ \A k \in ChangeIdx :
         (i <= k /\ k < j) => log[NextChange(k)].at - log[k].at < DEBOUNCE_MS

(* 300 ms have passed since change j with no change, and the instant at    *)
(* which they elapse has been served.                                      *)
QuietAfter(j) ==
    /\ NextChange(j) = 0 \/ log[NextChange(j)].at >= log[j].at + DEBOUNCE_MS
    /\ \/ now > log[j].at + DEBOUNCE_MS
       \/ now = log[j].at + DEBOUNCE_MS /\ ~TimerDue

(* Fetches issued between change i and the end of the quiet period of j. *)
Window(i, j) ==
    { k \in FetchIdx :
        /\ k > i
        /\ log[k].at <= log[j].at + DEBOUNCE_MS
        /\ NextChange(j) = 0 \/ k < NextChange(j) }

TimerWindow(i, j) == { k \in Window(i, j) : fetches[log[k].fid].trigger = "timer" }

Bursts == { <<i, j>> \in ChangeIdx \X ChangeIdx : Chain(i, j) /\ QuietAfter(j) }

----------------------------------------------------------------------------
(* C1, as stated: for every burst of changes less than 300 ms apart        *)
(* followed by 300 quiet ms, exactly one product fetch is issued between   *)
(* the first change and the end of the quiet period, at the end of the     *)
(* quiet period, with the final term and category.                         *)
C1_ExactlyOneFetch ==
    \A b \in Bursts :
        /\ Cardinality(Window(b[1], b[2])) = 1
        /\ \A k \in Window(b[1], b[2]) :
             /\ log[k].at = log[b[2]].at + DEBOUNCE_MS
             /\ log[k].q = log[b[2]].q
             /\ log[k].category = log[b[2]].category

(* C1, amended: for every such burst exactly one fetch is issued by the    *)
(* debounce timer in that span, when the quiet period elapses, with the    *)
(* final term and category; the only other fetch that can be issued in the *)
(* span is the single follow-up of the seed call, with no parameters.      *)
C1_Debounce ==
    \A b \in Bursts :
        /\ Cardinality(TimerWindow(b[1], b[2])) = 1
        /\ \A k \in TimerWindow(b[1], b[2]) :
             /\ log[k].at = log[b[2]].at + DEBOUNCE_MS
             /\ log[k].q = log[b[2]].q
             /\ log[k].category = log[b[2]].category
        /\ Cardinality(Window(b[1], b[2]) \ TimerWindow(b[1], b[2])) <= 1
        /\ \A k \in Window(b[1], b[2]) \ TimerWindow(b[1], b[2]) :
             /\ fetches[log[k].fid].trigger = "seed"
             /\ fetches[log[k].fid].params = <<>>

(* A burst of two changes has been followed by its quiet period. *)
C1_Witness ==
    \E b \in Bursts : b[1] < b[2] /\ TimerWindow(b[1], b[2]) # {}

----------------------------------------------------------------------------
(* C2: once a product fetch has resolved, the displayed item list equals   *)
(* the items of the most recently initiated fetch among those resolved.    *)
C2_LatestInitiatedShown ==
    LET resolved == { f \in 1..Len(fetches) : fetches[f].status = "ok" } IN
    resolved # {} => items = ItemsOrEmpty(fetches[SetMax(resolved)].body)

----------------------------------------------------------------------------
(* C3: while some issued product fetch has not settled, loading is true.   *)
C3_LoadingWhileInFlight == Pending # {} => loading = TRUE

----------------------------------------------------------------------------
(* A step in which fetch f settles with the given outcome. *)
SettleStep(f, outcome) ==
    /\ f \in 1..Len(fetches)
    /\ fetches[f].status = "pending"
    /\ fetches'[f].status = outcome

(* C4: a step in which a product fetch settles with a failure leaves the   *)
(* item list, the term and the category as they were; it sets error to     *)
(* "Failed to load products" and loading to false, and nothing else        *)
(* (seed call, timer, set of issued fetches) changes.                      *)
C4_FailureKeepsItems ==
    [][\A f \in 1..Len(fetches) : SettleStep(f, "failed") =>
          /\ items' = items
          /\ error' = FAILED_MSG
          /\ loading' = FALSE
          /\ query' = query
          /\ category' = category
          /\ seed' = seed
          /\ timers' = timers
          /\ Len(fetches') = Len(fetches)
          /\ \A g \in 1..Len(fetches) : g # f => fetches'[g] = fetches[g]]_vars

(* A fetch has just failed while a non-empty list is displayed. *)
C4_Witness ==
    /\ log[Len(log)].kind = "settle"
    /\ fetches[log[Len(log)].fid].status = "failed"
    /\ items # <<>>
    /\ error = FAILED_MSG

----------------------------------------------------------------------------
(* The render of App: the error banner block, then the three-way body.     *)
Rendered ==
    (IF error # "" THEN {"banner"} ELSE {})
    \cup { IF loading THEN "skeletons"
           ELSE IF Len(items) = 0 THEN "empty"
           ELSE "grid" }

(* C5, as stated: exactly one of the four views is rendered, by priority   *)
(* loading, error, empty list, grid.                                       *)
C5_OneOfFourViews ==
    Rendered = { IF loading THEN "skeletons"
                 ELSE IF error # "" THEN "banner"
                 ELSE IF items = <<>> THEN "empty"
                 ELSE "grid" }

(* C5, amended: exactly one of the three body views is rendered, by        *)
(* priority loading, empty list, grid; the error banner is rendered, above *)
(* the body view, exactly when the error message is non-empty, and never   *)
(* together with the skeletons.                                            *)
C5_BannerAboveBody ==
    /\ Rendered \ {"banner"} =
         { IF loading THEN "skeletons"
           ELSE IF items = <<>> THEN "empty"
           ELSE "grid" }
    /\ "banner" \in Rendered <=> error # ""
    /\ ~({"banner", "skeletons"} \subseteq Rendered)

(* The banner is shown together with the grid. *)
C5_Witness == Rendered = {"banner", "grid"}

----------------------------------------------------------------------------
(* C6: the step in which the seed call settles, with success or with       *)
(* failure, issues one product fetch with no term and no category; apart   *)
(* from what that issuance does (loading true, error cleared) the step     *)
(* changes neither the error message, nor the item list, nor the loading   *)
(* flag: a seed failure sets no error and ends no loading.                 *)
C6_SeedThenFetch ==
    [][(seed = "pending" /\ seed' # "pending") =>
          /\ Len(fetches') = Len(fetches) + 1
          /\ LET f == fetches'[Len(fetches')] IN
               /\ f.trigger = "seed"
               /\ f.status = "pending"
               /\ f.params = <<>>
               /\ ~Truthy(f.opts.q) /\ ~Truthy(f.opts.category)
          /\ items' = items
          /\ error' = ""
          /\ loading' = TRUE
          /\ query' = query /\ category' = category /\ timers' = timers]_vars

(* The seed call has failed and its follow-up fetch is in flight. *)
C6_Witness ==
    /\ seed = "failed"
    /\ \E f \in Pending : fetches[f].trigger = "seed" /\ fetches[f].params = <<>>

----------------------------------------------------------------------------
(* C7, as stated: after a product fetch has failed, a further product      *)
(* fetch is issued only after a later change of term or category.          *)
C7_NoFetchWithoutChange ==
    \A j \in FailIdx : \A k \in FetchIdx :
        j < k => \E c \in ChangeIdx : j < c /\ c < k

(* C7, amended: after a product fetch has failed, a further product fetch  *)
(* is issued only by the seed follow-up or by a debounce timer that was    *)
(* already pending when the failure settled, or by a debounce timer        *)
(* started by a change of term or category after that settlement.          *)
C7_NoRetry ==
    \A j \in FailIdx : \A k \in FetchIdx :
        j < k =>
          LET f == fetches[log[k].fid] IN
          \/ f.trigger = "seed"
          \/ f.trigger = "timer" /\ f.armedBy < j
          \/ f.trigger = "timer" /\ f.armedBy > j /\ f.armedBy < k
               /\ log[f.armedBy].kind = "change"

(* A fetch was issued after a failure with no change in between. *)
C7_Witness ==
    \E j \in FailIdx : \E k \in FetchIdx :
        /\ j < k
        /\ ~\E c \in ChangeIdx : j < c /\ c < k
        /\ fetches[log[k].fid].trigger = "timer"

----------------------------------------------------------------------------
(* Position of the first occurrence of c in s. *)
FirstIndex(s, c) == SetMin({ i \in 1..Len(s) : s[i] = c })

ExampleIn == <<"A", "B", "A", "", "C", "B">>

(* C8: the derived sequence holds exactly the distinct non-empty category  *)
(* values of the list, each once, in order of first occurrence; the        *)
(* example list gives A, B, C; deriving again from the derived sequence    *)
(* returns it.                                                             *)
C8_CategoryDerivation ==
    /\ derPc \in {"once", "twice"} =>
         /\ Range(derOut) = { c \in Range(derIn) : Truthy(c) }
         /\ \A p, r \in 1..Len(derOut) : p # r => derOut[p] # derOut[r]
         /\ \A p, r \in 1..Len(derOut) :
              p < r => FirstIndex(derIn, derOut[p]) < FirstIndex(derIn, derOut[r])
         /\ derIn = ExampleIn => derOut = <<"A", "B", "C">>
    /\ derPc = "twice" => derAgain = derOut

(* The example list has been derived twice. *)
C8_Witness == derPc = "twice" /\ derIn = ExampleIn /\ derOut = <<"A", "B", "C">>

----------------------------------------------------------------------------
HasParam(params, name) == \E i \in 1..Len(params) : params[i][1] = name

ParamValues(params, name) == { params[i][2] : i \in { n \in 1..Len(params) : params[n][1] = name } }

(* C9: a product fetch issued by the debounce timer carries q iff the      *)
(* term is non-empty, with q = term, and carries category iff the selected *)
(* category is non-empty, with category = selection; each at most once.    *)
C9_RequestParams ==
    [][(Len(fetches') = Len(fetches) + 1 /\ fetches'[Len(fetches')].trigger = "timer") =>
          LET p == fetches'[Len(fetches')].params IN
          /\ HasParam(p, "q") <=> query # ""
          /\ ParamValues(p, "q") \subseteq {query}
          /\ HasParam(p, "category") <=> category # ""
          /\ ParamValues(p, "category") \subseteq {category}
          /\ Len(p) = Cardinality({ p[i][1] : i \in 1..Len(p) })
          /\ \A i \in 1..Len(p) : p[i][1] \in {"q", "category"}]_vars

(* A timer fetch was issued with both a term and a category. *)
C9_Witness ==
    \E f \in 1..Len(fetches) :
        /\ fetches[f].trigger = "timer"
        /\ HasParam(fetches[f].params, "q")
        /\ HasParam(fetches[f].params, "category")

----------------------------------------------------------------------------
(* C10: the step in which a product fetch settles ends with loading false, *)
(* and in it the item list (success) or the error message (failure) is set *)
(* before loading is cleared, which is the last setter called.             *)
C10_LoadingClearedLast ==
    [][\A f \in 1..Len(fetches) :
          /\ SettleStep(f, "ok") =>
               loading' = FALSE /\ writes' = <<"items", "loading">>
          /\ SettleStep(f, "failed") =>
               loading' = FALSE /\ writes' = <<"error", "loading">>]_vars

(* A fetch has just resolved while another one is still in flight. *)
C10_Witness ==
    /\ log[Len(log)].kind = "settle"
    /\ fetches[log[Len(log)].fid].status = "ok"
    /\ writes = <<"items", "loading">>
    /\ loading = FALSE
    /\ Pending # {}

----------------------------------------------------------------------------
(* The term and category a fetch was issued with; none counts as empty. *)
OrEmptyString(v) == IF Truthy(v) THEN v ELSE ""

(* C11: every successful settlement stores its items unconditionally: once *)
(* a fetch has resolved, the displayed list is that of the fetch that      *)
(* resolved last, also when a fetch issued later resolved before it.       *)
C11_LastSettledWins ==
    OkIdx # {} => items = ItemsOrEmpty(fetches[log[SetMax(OkIdx)].fid].body)

(* Fetch a was issued before b, resolved after b with other items, and     *)
(* a's items are displayed.                                                *)
C11_Witness ==
    \E i, j \in OkIdx :
        /\ i < j /\ j = SetMax(OkIdx)
        /\ log[j].fid < log[i].fid
        /\ Pending = {}
        /\ fetches[log[j].fid].body # fetches[log[i].fid].body
        /\ items = ItemsOrEmpty(fetches[log[j].fid].body)
        /\ items # ItemsOrEmpty(fetches[log[i].fid].body)

----------------------------------------------------------------------------
(* C12: no product fetch is issued before the seed call has settled; the   *)
(* first product fetch is the seed follow-up, with no term and category.   *)
C12_SeedFetchFirst ==
    /\ seed = "pending" => fetches = <<>>
    /\ fetches # <<>> => fetches[1].trigger = "seed" /\ fetches[1].params = <<>>

----------------------------------------------------------------------------
(* A step that changes the term or the category. *)
ChangeStep == query' # query \/ category' # category

(* C13: at most one debounce timer is pending; a change of term or         *)
(* category removes the pending timer and starts, in the same step, one    *)
(* timer due 300 ms later with the new values, and issues no fetch; no     *)
(* fetch is ever issued by a timer that a later change replaced.           *)
C13_SingleTimer ==
    /\ [](Cardinality(timers) <= 1)
    /\ [](\A k \in FetchIdx :
             fetches[log[k].fid].trigger = "timer" =>
                 LET c == NextChange(fetches[log[k].fid].armedBy) IN
                 c = 0 \/ c > k)
    /\ [][ChangeStep =>
             /\ timers' = { [due |-> now + DEBOUNCE_MS, q |-> query',
                             category |-> category', armedBy |-> Len(log')] }
             /\ timers \cap timers' = {}
             /\ now' = now
             /\ fetches' = fetches]_vars

(* A change has replaced a pending timer that a previous change started.   *)
C13_Witness ==
    \E i, j \in ChangeIdx :
        /\ i < j
        /\ log[j].at < log[i].at + DEBOUNCE_MS
        /\ \E t \in timers : t.armedBy = j

----------------------------------------------------------------------------
Quiescent ==
    /\ seed # "pending"
    /\ timers = {}
    /\ Pending = {}
    /\ error = ""

(* C14: when the seed call has settled, no timer is pending, no fetch is   *)
(* in flight and there is no error, the displayed list is the response of  *)
(* a fetch issued with the current term and the current category.          *)
C14_QuiescentConsistency ==
    Quiescent =>
        \E f \in 1..Len(fetches) :
            /\ fetches[f].status = "ok"
            /\ OrEmptyString(fetches[f].opts.q) = query
            /\ OrEmptyString(fetches[f].opts.category) = category
            /\ items = ItemsOrEmpty(fetches[f].body)

----------------------------------------------------------------------------
(* C15: when the seed call and every fetch settle, timers fire and the     *)
(* user stops changing term and category, eventually loading is false, no  *)
(* timer is pending and no fetch is in flight, and it stays so.            *)
C15_EventuallyIdle ==
    <>[](loading = FALSE /\ timers = {} /\ Pending = {} /\ seed # "pending")

(* Everything has settled after the user's last change. *)
C15_Witness ==
    /\ NumChanges = MaxChanges
    /\ seed # "pending"
    /\ timers = {}
    /\ Pending = {}
    /\ Len(fetches) >= 3
    /\ loading = FALSE

====
